---- MODULE Spec2Model ----
(***************************************************************************)
(* Model of fish_reader's pagination pipeline and line-index mapping       *)
(* (src/src/fish/book_manager.py).                                         *)
(*                                                                         *)
(* A Python str is a sequence of one-character strings.  The module is     *)
(* written in ASCII, so the full-width characters of the source are        *)
(* written with ASCII stand-ins:                                           *)
(*    "."  U+3002   "?"  U+FF1F   "!"  U+FF01      (sentence terminals)    *)
(*    ","  U+FF0C   ";"  U+FF1B   ":"  U+FF1A   "^"  U+3001  (break marks) *)
(* Python indices are 0-based; s[i] of the source is At(s, i) here.        *)
(***************************************************************************)
EXTENDS Integers, Sequences, FiniteSets, TLC

VARIABLES
    \* ---- BookManager and its environment
    fs,                     \* the file system: path -> file
    current_book_path,      \* BookManager.current_book_path
    line_mapping,           \* BookManager.line_mapping          (dict)
    reverse_line_mapping,   \* BookManager.reverse_line_mapping  (dict of lists)
    book_content,           \* the list returned by the last get_book_content()
    loaded_path,            \* the path that call was made for
    n_loads,                \* number of get_book_content() calls made
    \* ---- one run of the per-line pipeline
    original_line,          \* the raw source line
    max_length,             \* _split_line's max_length
    line,                   \* original_line.strip()
    sentences,              \* result of _extract_sentences
    lines,                  \* result of _group_sentences_into_lines
    paragraphs,             \* result of _group_lines_into_paragraphs
    pc,                     \* position in the pipeline
    \* ---- one call of _force_split_long_sentence, iteration by iteration
    split_text,             \* the argument sentence
    split_max,              \* the argument max_line_length
    split_start,            \* the local start
    split_result,           \* the local result
    split_pc,               \* position in the call
    \* ---- the bookshelf and the configuration
    bookshelf,              \* dict path -> [progress, total_lines]
    current_book,           \* bookshelf["current_book"]
    _needs_save,            \* BookManager._needs_save
    auto_save_progress,     \* config.get('auto_save_progress', True)
    \* ---- FloatingWindow (its book_content is the variable book_content)
    current_line,           \* FloatingWindow.current_line
    waiting_for_line_number,
    line_number_input,
    app_pc,                 \* position of main()
    \* ---- the bookshelf file
    disk,                   \* what bookshelf.json holds: [bookshelf, current_book]
    save_result             \* what the last save() call did

bm_vars   == <<fs, current_book_path, line_mapping, reverse_line_mapping,
               book_content, loaded_path, n_loads>>
line_vars == <<original_line, max_length, line, sentences, lines, paragraphs, pc>>
split_vars == <<split_text, split_max, split_start, split_result, split_pc>>
shelf_vars == <<bookshelf, current_book, _needs_save, auto_save_progress>>
win_vars  == <<current_line, waiting_for_line_number, line_number_input, app_pc>>
app_vars  == <<shelf_vars, win_vars>>
disk_vars == <<disk, save_result>>
vars      == <<bm_vars, line_vars, split_vars, app_vars, disk_vars>>

----------------------------------------------------------------------------
\* Bounds

MaxLineLen   == 5    \* longest raw line drawn for the per-line pipeline
MaxMaxLength == 8    \* largest max_length drawn for the per-line pipeline
MaxDocLines  == 2    \* longest document drawn for the file system
LongLineLen  == 70   \* length of the long source line of the documents
MaxLoads     == 3    \* get_book_content() calls per behaviour
MaxSplitText == 6    \* longest text drawn for _force_split_long_sentence
MaxSplitLen  == 5    \* largest max_line_length drawn for it

----------------------------------------------------------------------------
\* Characters and strings

None == "None"

Terminal     == {".", "?", "!"}           \* the class [.?!] of line 250, line 254
BreakPunct   == {",", ";", ":", "^"}      \* line 313
BreakSpace   == {" ", "\t"}               \* line 316
PyWhitespace == {" ", "\t", "\n", "\r"}   \* what str.strip() removes

Min(a, b) == IF a < b THEN a ELSE b

\* s[i], 0-based
At(s, i) == s[i + 1]

\* s[a:b], 0-based, 0 <= a, b <= len(s)
Slice(s, a, b) == SubSeq(s, a + 1, b)

\* ''.join(parts)
RECURSIVE Join(_)
Join(parts) == IF parts = <<>> THEN <<>> ELSE Head(parts) \o Join(Tail(parts))

RECURSIVE LStrip(_)
LStrip(s) ==
    IF s = <<>> THEN s
    ELSE IF Head(s) \in PyWhitespace THEN LStrip(Tail(s)) ELSE s

RECURSIVE RStrip(_)
RStrip(s) ==
    IF s = <<>> THEN s
    ELSE IF s[Len(s)] \in PyWhitespace THEN RStrip(SubSeq(s, 1, Len(s) - 1)) ELSE s

\* str.strip()
strip(s) == RStrip(LStrip(s))

----------------------------------------------------------------------------
\* _extract_sentences

\* MatchEnd for the pattern [^.?!]*[.?!]?["]?: a closing quotation mark right
\* after the terminal mark is part of the match.
MatchEnd_WithQuote(text, p) ==
    LET terms == {q \in p..(Len(text) - 1) : At(text, q) \in Terminal}
    IN  IF terms = {} THEN Len(text)
        ELSE LET e == (CHOOSE q \in terms : \A r \in terms : q <= r) + 1
             IN  IF e < Len(text) /\ At(text, e) = "\"" THEN e + 1 ELSE e

\* Exclusive 0-based end of the match of [^.?!]*[.?!]? that starts at p:
\* the run of non-terminals is greedy, then one terminal if there is one.
MatchEnd(text, p) ==
    LET terms == {q \in p..(Len(text) - 1) : At(text, q) \in Terminal}
    IN  IF terms = {} THEN Len(text)
        ELSE (CHOOSE q \in terms : \A r \in terms : q <= r) + 1

\* re.findall from position p: the non-overlapping matches left to right; the
\* pattern matches the empty string at the end of the text, and findall
\* reports that match too.
RECURSIVE findall(_, _)
findall(text, p) ==
    IF p >= Len(text) THEN << <<>> >>
    ELSE LET e == MatchEnd(text, p)
         IN  <<Slice(text, p, e)>> \o findall(text, e)

HasTerminal(sentence) == \E i \in 1..Len(sentence) : sentence[i] \in Terminal

\* _extract_sentences appending sentence.strip() instead of sentence.
_extract_sentences_Stripped(text) ==
    LET kept == SelectSeq(findall(text, 0),
                    LAMBDA sentence : strip(sentence) /= <<>> \/ HasTerminal(sentence))
    IN  [i \in 1..Len(kept) |-> strip(kept[i])]

_extract_sentences(text) ==
    SelectSeq(findall(text, 0),
              LAMBDA sentence : strip(sentence) /= <<>> \/ HasTerminal(sentence))

----------------------------------------------------------------------------
\* _force_split_long_sentence

\* SplitPoint with the hard cut one character late (an inclusive window).
SplitPoint_CutLate(sentence, start, end, max_line_length) ==
    LET hits == {i \in (start + (max_line_length \div 3) + 1)..(end - 1) :
                     At(sentence, i) \in BreakPunct \cup BreakSpace}
    IN  IF hits = {} THEN end + 1
        ELSE LET i == CHOOSE j \in hits : \A k \in hits : k <= j
             IN  IF At(sentence, i) \in BreakPunct THEN i + 1 ELSE i

\* SplitPoint looking back over the whole window, range(end - 1, start - 1, -1).
SplitPoint_FromStart(sentence, start, end, max_line_length) ==
    LET hits == {i \in start..(end - 1) :
                     At(sentence, i) \in BreakPunct \cup BreakSpace}
    IN  IF hits = {} THEN end
        ELSE LET i == CHOOSE j \in hits : \A k \in hits : k <= j
             IN  IF At(sentence, i) \in BreakPunct THEN i + 1 ELSE i

\* SplitPoint looking back over the last third of the window only,
\* start + max_line_length * 2 / 3 <= i <= end - 1.
SplitPoint_TwoThirds(sentence, start, end, max_line_length) ==
    LET hits == {i \in start..(end - 1) :
                     /\ 3 * (i - start) >= 2 * max_line_length
                     /\ At(sentence, i) \in BreakPunct \cup BreakSpace}
    IN  IF hits = {} THEN end
        ELSE LET i == CHOOSE j \in hits : \A k \in hits : k <= j
             IN  IF At(sentence, i) \in BreakPunct THEN i + 1 ELSE i

\* SplitPoint with two passes: the nearest punctuation of the range first,
\* whitespace only when the range holds no punctuation.
SplitPoint_PunctFirst(sentence, start, end, max_line_length) ==
    LET range == (start + (max_line_length \div 3) + 1)..(end - 1)
        puncts == {i \in range : At(sentence, i) \in BreakPunct}
        spaces == {i \in range : At(sentence, i) \in BreakSpace}
    IN  IF puncts /= {} THEN (CHOOSE j \in puncts : \A k \in puncts : k <= j) + 1
        ELSE IF spaces /= {} THEN CHOOSE j \in spaces : \A k \in spaces : k <= j
        ELSE end

\* The cut of one window [start, end) with end < len(sentence): lines 311-318.
\* range(end - 1, start + max_line_length // 3, -1) runs i downwards over
\* start + max_line_length // 3 < i <= end - 1 and stops at the first hit.
SplitPoint(sentence, start, end, max_line_length) ==
    LET hits == {i \in (start + (max_line_length \div 3) + 1)..(end - 1) :
                     At(sentence, i) \in BreakPunct \cup BreakSpace}
    IN  IF hits = {} THEN end
        ELSE LET i == CHOOSE j \in hits : \A k \in hits : k <= j
             IN  IF At(sentence, i) \in BreakPunct THEN i + 1 ELSE i

\* The while loop of lines 305-323.
RECURSIVE ForceSplitLoop(_, _, _, _)
ForceSplitLoop(sentence, max_line_length, start, result) ==
    IF ~(start < Len(sentence)) THEN result
    ELSE LET end == Min(start + max_line_length, Len(sentence))
         IN  IF end < Len(sentence)
             THEN LET split_point == SplitPoint(sentence, start, end, max_line_length)
                  IN  ForceSplitLoop(sentence, max_line_length, split_point,
                                     Append(result, Slice(sentence, start, split_point)))
             ELSE Append(result, Slice(sentence, start, end))

\* _force_split_long_sentence appending chunk.strip() instead of the chunk.
_force_split_long_sentence_Stripped(sentence, max_line_length) ==
    IF Len(sentence) <= max_line_length THEN <<sentence>>
    ELSE LET r == ForceSplitLoop(sentence, max_line_length, 0, <<>>)
         IN  [k \in 1..Len(r) |-> strip(r[k])]

_force_split_long_sentence(sentence, max_line_length) ==
    IF Len(sentence) <= max_line_length THEN <<sentence>>
    ELSE ForceSplitLoop(sentence, max_line_length, 0, <<>>)

----------------------------------------------------------------------------
\* _group_sentences_into_lines

\* PackSentence without lines 267-270: the chunks of an overlong sentence go to
\* lines while the accumulator still holds the sentences before it.
PackSentence_NoFlush(acc, sentence, max_line_length) ==
    LET sentence_len == Len(sentence) IN
    IF sentence_len > max_line_length
    THEN [lines          |-> acc.lines \o _force_split_long_sentence(sentence, max_line_length),
          current_line   |-> acc.current_line,
          current_length |-> acc.current_length]
    ELSE LET new_length == acc.current_length + sentence_len IN
         IF new_length <= max_line_length
         THEN [lines          |-> acc.lines,
               current_line   |-> Append(acc.current_line, sentence),
               current_length |-> new_length]
         ELSE [lines          |-> IF acc.current_line /= <<>>
                                  THEN Append(acc.lines, Join(acc.current_line))
                                  ELSE acc.lines,
               current_line   |-> <<sentence>>,
               current_length |-> sentence_len]

\* The body of the for loop, lines 265-289, on the accumulator
\* acc = [lines, current_line, current_length].
PackSentence(acc, sentence, max_line_length) ==
    LET sentence_len == Len(sentence) IN
    IF sentence_len > max_line_length
    THEN LET flushed == IF acc.current_line /= <<>>
                        THEN Append(acc.lines, Join(acc.current_line))
                        ELSE acc.lines
             kept    == IF acc.current_line /= <<>>
                        THEN [current_line |-> <<>>, current_length |-> 0]
                        ELSE [current_line |-> acc.current_line,
                              current_length |-> acc.current_length]
         IN  [lines          |-> flushed \o _force_split_long_sentence(sentence, max_line_length),
              current_line   |-> kept.current_line,
              current_length |-> kept.current_length]
    ELSE LET new_length == acc.current_length + sentence_len IN
         IF new_length <= max_line_length
         THEN [lines          |-> acc.lines,
               current_line   |-> Append(acc.current_line, sentence),
               current_length |-> new_length]
         ELSE [lines          |-> IF acc.current_line /= <<>>
                                  THEN Append(acc.lines, Join(acc.current_line))
                                  ELSE acc.lines,
               current_line   |-> <<sentence>>,
               current_length |-> sentence_len]

RECURSIVE PackLoop(_, _, _)
PackLoop(acc, rest, max_line_length) ==
    IF rest = <<>> THEN acc
    ELSE PackLoop(PackSentence(acc, Head(rest), max_line_length), Tail(rest), max_line_length)

_group_sentences_into_lines(sents, max_line_length) ==
    LET acc == PackLoop([lines |-> <<>>, current_line |-> <<>>, current_length |-> 0],
                        sents, max_line_length)
    IN  IF acc.current_line /= <<>>
        THEN Append(acc.lines, Join(acc.current_line))
        ELSE acc.lines

----------------------------------------------------------------------------
\* _group_lines_into_paragraphs

\* PairLoop with the loop condition i + 1 < len(lines): the unpaired last line is lost.
RECURSIVE PairLoop_DropsLast(_, _, _)
PairLoop_DropsLast(lns, i, paras) ==
    IF ~(i + 1 < Len(lns)) THEN paras
    ELSE PairLoop_DropsLast(lns, i + 2,
                            Append(paras, At(lns, i) \o <<"\n">> \o At(lns, i + 1)))

RECURSIVE PairLoop(_, _, _)
PairLoop(lns, i, paras) ==
    IF ~(i < Len(lns)) THEN paras
    ELSE IF i + 1 < Len(lns)
         THEN PairLoop(lns, i + 2, Append(paras, At(lns, i) \o <<"\n">> \o At(lns, i + 1)))
         ELSE PairLoop(lns, i + 1, Append(paras, At(lns, i)))

\* Every display line as a paragraph of its own, no pairing.
_group_lines_into_paragraphs_Unpaired(lns) == lns

_group_lines_into_paragraphs(lns) == PairLoop(lns, 0, <<>>)

----------------------------------------------------------------------------
\* _split_line

DefaultMaxLength == 66

_split_line(ln, max_len) ==
    IF strip(ln) = <<>> THEN <<>>
    ELSE LET sents == _extract_sentences(ln) IN
         IF sents = <<>> THEN <<>>
         ELSE _group_lines_into_paragraphs(
                  _group_sentences_into_lines(sents, max_len \div 2))

----------------------------------------------------------------------------
\* The file system

Paths == {"A.txt", "B.txt"}

MaxFileSize == 100 * 1024 * 1024        \* line 166

\* Raw lines as f.readlines() returns them.
EmptyLine == <<"\n">>
BlankLine == <<" ", "\n">>
ShortLine == <<"a", ".", "\n">>
LongLine  == [i \in 1..LongLineLen |-> "a"] \o <<"\n">>

LineChoices == {BlankLine, ShortLine, LongLine}

\* Scenario D of the specification: ["", "A.", "", "B."]
ScenarioD == <<EmptyLine, <<"A", ".", "\n">>, EmptyLine, <<"B", ".", "\n">>>>

\* Scenario C of the specification: one line of 200 characters, none of them
\* a terminal mark or a break character.
ScenarioCLine == [i \in 1..200 |-> "a"] \o <<"\n">>
ScenarioC == <<ScenarioCLine>>

Docs == UNION {[1..n -> LineChoices] : n \in 0..MaxDocLines} \cup {ScenarioC, ScenarioD}

TextFile(doc) ==
    [exists |-> TRUE, size_error |-> FALSE, size |-> Len(Join(doc)),
     read_error |-> FALSE, lines |-> doc]

\* a path with no file behind it
MissingFile ==
    [exists |-> FALSE, size_error |-> TRUE, size |-> 0, read_error |-> TRUE, lines |-> <<>>]
\* a file of more than 100 MB
TooLargeFile ==
    [exists |-> TRUE, size_error |-> FALSE, size |-> MaxFileSize + 1,
     read_error |-> FALSE, lines |-> <<>>]
\* os.path.getsize raises OSError
NoSizeFile ==
    [exists |-> TRUE, size_error |-> TRUE, size |-> 0, read_error |-> FALSE, lines |-> <<>>]
\* open / readlines raises (UnicodeDecodeError, PermissionError, OSError)
UnreadableFile ==
    [exists |-> TRUE, size_error |-> FALSE, size |-> 1, read_error |-> TRUE, lines |-> <<>>]

FileStates ==
    {TextFile(doc) : doc \in Docs} \cup {MissingFile, TooLargeFile, NoSizeFile, UnreadableFile}

----------------------------------------------------------------------------
\* BookManager

\* A dict is a function on its keys; {} is the function on no key.
EmptyDict == <<>>

\* d[k] = v
DictSet(d, k, v) == [x \in DOMAIN d \cup {k} |-> IF x = k THEN v ELSE d[x]]

\* d.get(k, default)
DictGet(d, k, default) == IF k \in DOMAIN d THEN d[k] ELSE default

\* The one-paragraph results of the failure returns (lines 159, 168, 171, 203).
DiagMissing(path) == <<"file does not exist: ", path>>
DiagTooLarge      == <<"file too large">>
DiagNoSize(path)  == <<"cannot get file size: ", path>>
DiagReadError     == <<"error reading file">>

\* Lines 192-197 for one paragraph of source line actual_line_number, on the
\* loop state st = [formatted_lines, line_mapping, reverse_line_mapping,
\* display_line_index].
RecordParagraph(st, split_line, actual_line_number) ==
    [formatted_lines      |-> Append(st.formatted_lines, split_line),
     line_mapping         |-> DictSet(st.line_mapping, st.display_line_index,
                                      actual_line_number),
     reverse_line_mapping |->
         DictSet(st.reverse_line_mapping, actual_line_number,
                 Append(DictGet(st.reverse_line_mapping, actual_line_number, <<>>),
                        st.display_line_index)),
     display_line_index   |-> st.display_line_index + 1]

\* for split_line in split_lines (line 191)
RECURSIVE RecordLoop(_, _, _)
RecordLoop(st, split_lines, actual_line_number) ==
    IF split_lines = <<>> THEN st
    ELSE RecordLoop(RecordParagraph(st, Head(split_lines), actual_line_number),
                    Tail(split_lines), actual_line_number)

\* for idx, original_line in enumerate(original_lines) (lines 183-197)
RECURSIVE SourceLoop(_, _, _)
SourceLoop(st, original_lines, idx) ==
    IF ~(idx < Len(original_lines)) THEN st
    ELSE LET actual_line_number == idx + 1
             ln == strip(At(original_lines, idx))
         IN  IF ln = <<>>
             THEN SourceLoop(st, original_lines, idx + 1)
             ELSE SourceLoop(RecordLoop(st, _split_line(ln, DefaultMaxLength),
                                        actual_line_number),
                             original_lines, idx + 1)

\* Lines 179-200: the loop starts from an empty formatted_lines and index 0,
\* and writes into the dicts the BookManager already holds.
LoadInto(lm, rlm, original_lines) ==
    SourceLoop([formatted_lines |-> <<>>, line_mapping |-> lm,
                reverse_line_mapping |-> rlm, display_line_index |-> 0],
               original_lines, 0)

\* get_book_content(): [ret, line_mapping, reverse_line_mapping] after the call
GetBookContent(path, lm, rlm) ==
    LET same(ret) == [ret |-> ret, line_mapping |-> lm, reverse_line_mapping |-> rlm]
    IN  IF path = None THEN same(<<>>)
        ELSE LET f == fs[path] IN
             IF ~f.exists THEN same(<<DiagMissing(path)>>)
             ELSE IF f.size_error THEN same(<<DiagNoSize(path)>>)
             ELSE IF f.size > MaxFileSize THEN same(<<DiagTooLarge>>)
             ELSE IF f.read_error THEN same(<<DiagReadError>>)
             ELSE LET st == LoadInto(lm, rlm, f.lines)
                  IN  [ret |-> st.formatted_lines, line_mapping |-> st.line_mapping,
                       reverse_line_mapping |-> st.reverse_line_mapping]

get_book_content ==
    /\ n_loads < MaxLoads
    /\ LET r == GetBookContent(current_book_path, line_mapping, reverse_line_mapping)
       IN  /\ book_content' = r.ret
           /\ line_mapping' = r.line_mapping
           /\ reverse_line_mapping' = r.reverse_line_mapping
    /\ loaded_path' = current_book_path
    /\ n_loads' = n_loads + 1
    /\ UNCHANGED <<fs, current_book_path>>
    /\ UNCHANGED <<line_vars, split_vars, app_vars, disk_vars>>

\* set_current_book(file_path): raises FileNotFoundError, changing nothing,
\* when the file does not exist
set_current_book(file_path) ==
    /\ IF fs[file_path].exists
       THEN /\ current_book_path' = file_path
            /\ current_book' = file_path
            /\ _needs_save' = TRUE
       ELSE UNCHANGED <<current_book_path, current_book, _needs_save>>
    /\ UNCHANGED <<fs, line_mapping, reverse_line_mapping, book_content,
                   loaded_path, n_loads>>
    /\ UNCHANGED <<bookshelf, auto_save_progress, win_vars>>
    /\ UNCHANGED <<line_vars, split_vars, disk_vars>>

\* _count_lines(file_path)
_count_lines(file_path) ==
    IF ~fs[file_path].exists THEN 0
    ELSE IF fs[file_path].read_error THEN 0
    ELSE Len(fs[file_path].lines)

get_actual_line_number(display_line_index) ==
    DictGet(line_mapping, display_line_index, -1)

\* The while loop of lines 211-219.
RECURSIVE get_display_line_index(_)
get_display_line_index(actual_line_number) ==
    IF actual_line_number >= 0
    THEN LET indices == DictGet(reverse_line_mapping, actual_line_number, <<>>)
         IN  IF indices /= <<>> THEN indices[1]
             ELSE get_display_line_index(actual_line_number - 1)
    ELSE -1

SplitIdle ==
    /\ split_text = <<>>
    /\ split_max = 0
    /\ split_start = 0
    /\ split_result = <<>>
    /\ split_pc = "idle"

\* What bookshelf.save() writes: the bookshelf dict with its current_book key
Mem == [bookshelf |-> bookshelf, current_book |-> current_book]

\* bookshelf.save() returns, or raises PermissionError / OSError
WriteOutcomes == {"ok", "error"}

\* save() without the _needs_save test of line 135: it writes whenever
\* auto_save_progress is enabled.
SaveOutcome_IgnoresFlag(write) ==
    IF auto_save_progress
    THEN IF write = "ok"
         THEN [_needs_save |-> FALSE, disk |-> Mem, save_result |-> "written"]
         ELSE [_needs_save |-> _needs_save, disk |-> disk, save_result |-> "failed"]
    ELSE [_needs_save |-> _needs_save, disk |-> disk, save_result |-> "skipped"]

\* save(), lines 133-147: [_needs_save, disk, save_result] after the call.
\* A write that raises is caught and leaves the file as it was.
SaveOutcome(write) ==
    IF _needs_save /\ auto_save_progress
    THEN IF write = "ok"
         THEN [_needs_save |-> FALSE, disk |-> Mem, save_result |-> "written"]
         ELSE [_needs_save |-> _needs_save, disk |-> disk, save_result |-> "failed"]
    ELSE [_needs_save |-> _needs_save, disk |-> disk, save_result |-> "skipped"]

\* The assignments of a save() call
SaveSets(write) ==
    LET s == SaveOutcome(write)
    IN  /\ _needs_save' = s._needs_save
        /\ disk' = s.disk
        /\ save_result' = s.save_result

\* no save() has been called; the file is what the bookshelf was read from
DiskIdle ==
    /\ disk = Mem
    /\ save_result = "none"

\* no FloatingWindow has been made
WinIdle ==
    /\ current_line = 0
    /\ waiting_for_line_number = FALSE
    /\ line_number_input = <<>>
    /\ app_pc = "none"

LineIdle ==
    /\ original_line = <<>>
    /\ max_length = DefaultMaxLength
    /\ line = <<>>
    /\ sentences = <<>>
    /\ lines = <<>>
    /\ paragraphs = <<>>
    /\ pc = "idle"

\* BookManager.__init__ on some file system and some bookshelf
Init ==
    /\ fs \in [Paths -> FileStates]
    /\ current_book_path \in Paths \cup {None}
    /\ line_mapping = EmptyDict
    /\ reverse_line_mapping = EmptyDict
    /\ book_content = <<>>
    /\ loaded_path = None
    /\ n_loads = 0
    /\ bookshelf = IF current_book_path = None THEN EmptyDict
                   ELSE DictSet(EmptyDict, current_book_path,
                                [progress |-> 0,
                                 total_lines |-> _count_lines(current_book_path)])
    /\ current_book = current_book_path
    /\ _needs_save = FALSE
    /\ auto_save_progress = TRUE
    /\ WinIdle
    /\ DiskIdle
    /\ LineIdle
    /\ SplitIdle

Next ==
    \/ \E file_path \in Paths : set_current_book(file_path)
    \/ get_book_content

Spec == Init /\ [][Next]_vars

----------------------------------------------------------------------------
\* Properties of the line-index mapping (checked under Spec)

\* The last get_book_content() call read its file and ran the pipeline.
LoadedOk ==
    /\ n_loads > 0
    /\ loaded_path /= None
    /\ fs[loaded_path].exists
    /\ ~fs[loaded_path].size_error
    /\ fs[loaded_path].size <= MaxFileSize
    /\ ~fs[loaded_path].read_error

\* The last get_book_content() call could not load its file.
LoadFailed == n_loads > 0 /\ loaded_path /= None /\ ~LoadedOk

\* The document of the last successful call
LoadedDoc == fs[loaded_path].lines

IsBlank(raw) == strip(raw) = <<>>

\* The paragraphs source line L (1-based) of the loaded document gives
ParagraphsOf(L) ==
    IF L \in 1..Len(LoadedDoc)
    THEN _split_line(strip(LoadedDoc[L]), DefaultMaxLength)
    ELSE <<>>

RECURSIVE ParagraphsBefore(_)
ParagraphsBefore(L) ==
    IF L <= 1 THEN 0 ELSE ParagraphsBefore(L - 1) + Len(ParagraphsOf(L - 1))

Range(f) == {f[x] : x \in DOMAIN f}

\* The display indices and source line numbers a caller may ask about
ProbeIndices == (-2..(Len(book_content) + 2)) \cup DOMAIN line_mapping
ProbeLines   == (-2..(MaxDocLines + 4)) \cup DOMAIN reverse_line_mapping

\* C2: after any sequence of set_current_book / get_book_content calls, for
\* every source line L of the loaded document that produced a paragraph,
\* get_actual_line_number(get_display_line_index(L)) = L.
C2_RoundTrip ==
    LoadedOk =>
        \A L \in 1..Len(LoadedDoc) :
            ParagraphsOf(L) /= <<>> =>
                get_actual_line_number(get_display_line_index(L)) = L

\* The places <<L, k>> of reverse_line_mapping that hold display index i
Occurrences(i) ==
    UNION {{<<L, k>> : k \in {k \in 1..Len(reverse_line_mapping[L]) :
                                  reverse_line_mapping[L][k] = i}} :
           L \in DOMAIN reverse_line_mapping}

\* C3: every get_book_content() call produces a fresh mapping: line_mapping
\* has exactly the keys 0..len(paragraphs)-1, reverse_line_mapping holds only
\* display indices created by that call, each once, and no entry of an
\* earlier load survives.
C3_FreshMapping ==
    LoadedOk =>
        LET fresh == LoadInto(EmptyDict, EmptyDict, LoadedDoc) IN
        /\ DOMAIN line_mapping = 0..(Len(book_content) - 1)
        /\ \A i \in 0..(Len(book_content) - 1) : Cardinality(Occurrences(i)) = 1
        /\ \A L \in DOMAIN reverse_line_mapping :
              \A k \in 1..Len(reverse_line_mapping[L]) :
                  reverse_line_mapping[L][k] \in 0..(Len(book_content) - 1)
        /\ line_mapping = fresh.line_mapping
        /\ reverse_line_mapping = fresh.reverse_line_mapping

\* C4: get_actual_line_number(i) = -1 for every i < 0 and every
\* i >= len(paragraphs), paragraphs being the list the most recent
\* get_book_content() returned, after any sequence of loads.
C4_OutOfRange ==
    n_loads > 0 =>
        \A i \in ProbeIndices :
            (i < 0 \/ i >= Len(book_content)) => get_actual_line_number(i) = -1

\* C5: for every source line number L without paragraphs of its own (blank,
\* before the first content line, past the end), get_display_line_index(L) is
\* the first display index of the nearest populated source line below L, equal
\* to get_display_line_index(L - 1), and -1 when no line <= L has content.
C5_Fallback ==
    LoadedOk =>
        \A L \in ProbeLines :
            ParagraphsOf(L) = <<>> =>
                LET below == {M \in 1..Len(LoadedDoc) : M < L /\ ParagraphsOf(M) /= <<>>}
                IN  /\ get_display_line_index(L) =
                          IF below = {} THEN -1
                          ELSE ParagraphsBefore(CHOOSE M \in below : \A N \in below : N <= M)
                    /\ L >= 1 => get_display_line_index(L) = get_display_line_index(L - 1)

\* C6: when get_book_content() cannot load the current book it returns exactly
\* one diagnostic paragraph and the mapping is empty afterwards:
\* get_actual_line_number(i) = -1 for every i and get_display_line_index(L) = -1
\* for every L, also when the failing load follows a successful one.
C6_FailedLoadLeavesNoMapping ==
    LoadFailed =>
        /\ Len(book_content) = 1
        /\ book_content[1] \in {DiagMissing(loaded_path), DiagTooLarge,
                                DiagNoSize(loaded_path), DiagReadError}
        /\ \A i \in ProbeIndices : get_actual_line_number(i) = -1
        /\ \A L \in ProbeLines : get_display_line_index(L) = -1

\* C7: after any sequence of loads the display indices recorded for one source
\* line form a contiguous ascending block without duplicates, every display
\* index of L1 is smaller than every display index of L2 when L1 < L2, and the
\* forward mapping is non-decreasing in the display index.
C7_BlocksOrdered ==
    n_loads > 0 =>
        /\ \A L \in DOMAIN reverse_line_mapping :
              \A k \in 1..(Len(reverse_line_mapping[L]) - 1) :
                  reverse_line_mapping[L][k + 1] = reverse_line_mapping[L][k] + 1
        /\ \A L1, L2 \in DOMAIN reverse_line_mapping :
              L1 < L2 =>
                  \A k1 \in 1..Len(reverse_line_mapping[L1]) :
                      \A k2 \in 1..Len(reverse_line_mapping[L2]) :
                          reverse_line_mapping[L1][k1] < reverse_line_mapping[L2][k2]
        /\ \A i, j \in DOMAIN line_mapping :
              i < j => line_mapping[i] <= line_mapping[j]

\* The paragraphs of the loaded document, line by line
RECURSIVE ParagraphsUpTo(_)
ParagraphsUpTo(L) ==
    IF L < 1 THEN <<>> ELSE ParagraphsUpTo(L - 1) \o ParagraphsOf(L)

\* C8: a blank or whitespace-only source line contributes no paragraph and no
\* mapping entry: after get_book_content() no value of line_mapping and no key
\* of reverse_line_mapping is the number of a blank line, every returned
\* paragraph is built from exactly one non-blank line, and the document
\* ["", "A.", "", "B."] gives ["A.", "B."] with forward mapping {0: 2, 1: 4}.
C8_BlankLinesUnmapped ==
    LoadedOk =>
        /\ \A L \in 1..Len(LoadedDoc) :
              IsBlank(LoadedDoc[L]) =>
                  /\ L \notin Range(line_mapping)
                  /\ L \notin DOMAIN reverse_line_mapping
                  /\ ParagraphsOf(L) = <<>>
        /\ book_content = ParagraphsUpTo(Len(LoadedDoc))
        /\ LoadedDoc = ScenarioD =>
              /\ book_content = << <<"A", ".">>, <<"B", ".">> >>
              /\ line_mapping = [i \in {0, 1} |-> IF i = 0 THEN 2 ELSE 4]

----------------------------------------------------------------------------
\* The per-line pipeline, one step per function call:
\* get_book_content lines 185-190 and _split_line lines 229-245.

Alphabet == {"a", ".", ",", " ", "\""}

RECURSIVE StringsOfLen(_)
StringsOfLen(n) ==
    IF n = 0 THEN {<<>>}
    ELSE {Append(s, c) : s \in StringsOfLen(n - 1), c \in Alphabet}

Strings == UNION {StringsOfLen(n) : n \in 0..MaxLineLen}

\* line = original_line.strip(); blank lines are skipped (lines 185-187)
StripLine ==
    /\ pc = "strip"
    /\ line' = strip(original_line)
    /\ pc' = IF line' = <<>> THEN "skipped" ELSE "extract"
    /\ UNCHANGED <<original_line, max_length, sentences, lines, paragraphs>>
    /\ UNCHANGED <<bm_vars, split_vars, app_vars, disk_vars>>

\* sentences = self._extract_sentences(line) (lines 229-235)
ExtractSentences ==
    /\ pc = "extract"
    /\ sentences' = IF strip(line) = <<>> THEN <<>> ELSE _extract_sentences(line)
    /\ pc' = IF sentences' = <<>> THEN "empty" ELSE "group"
    /\ UNCHANGED <<original_line, max_length, line, lines, paragraphs>>
    /\ UNCHANGED <<bm_vars, split_vars, app_vars, disk_vars>>

\* lines = self._group_sentences_into_lines(sentences, max_length // 2)
GroupSentences ==
    /\ pc = "group"
    /\ lines' = _group_sentences_into_lines(sentences, max_length \div 2)
    /\ pc' = "pair"
    /\ UNCHANGED <<original_line, max_length, line, sentences, paragraphs>>
    /\ UNCHANGED <<bm_vars, split_vars, app_vars, disk_vars>>

\* paragraphs = self._group_lines_into_paragraphs(lines)
GroupLines ==
    /\ pc = "pair"
    /\ paragraphs' = _group_lines_into_paragraphs(lines)
    /\ pc' = "done"
    /\ UNCHANGED <<original_line, max_length, line, sentences, lines>>
    /\ UNCHANGED <<bm_vars, split_vars, app_vars, disk_vars>>

BmIdle ==
    /\ fs = [path \in Paths |-> MissingFile]
    /\ current_book_path = None
    /\ line_mapping = <<>>
    /\ reverse_line_mapping = <<>>
    /\ book_content = <<>>
    /\ loaded_path = None
    /\ n_loads = 0
    /\ bookshelf = EmptyDict
    /\ current_book = None
    /\ _needs_save = FALSE
    /\ auto_save_progress = TRUE
    /\ WinIdle
    /\ DiskIdle

LineInit ==
    /\ original_line \in Strings
    /\ max_length \in 2..MaxMaxLength
    /\ line = <<>>
    /\ sentences = <<>>
    /\ lines = <<>>
    /\ paragraphs = <<>>
    /\ pc = "strip"
    /\ BmIdle
    /\ SplitIdle

LineNext == StripLine \/ ExtractSentences \/ GroupSentences \/ GroupLines

SpecLine == LineInit /\ [][LineNext]_vars

----------------------------------------------------------------------------
\* Properties of the per-line pipeline (checked under SpecLine)

\* str.split('\n')
RECURSIVE SplitOnNewline(_)
SplitOnNewline(s) ==
    LET nl == {i \in 1..Len(s) : s[i] = "\n"}
    IN  IF nl = {} THEN <<s>>
        ELSE LET i == CHOOSE j \in nl : \A k \in nl : j <= k
             IN  <<SubSeq(s, 1, i - 1)>> \o SplitOnNewline(SubSeq(s, i + 1, Len(s)))

\* s without its first newline
DropFirstNewline(s) ==
    LET nl == {i \in 1..Len(s) : s[i] = "\n"}
    IN  IF nl = {} THEN s
        ELSE LET i == CHOOSE j \in nl : \A k \in nl : j <= k
             IN  SubSeq(s, 1, i - 1) \o SubSeq(s, i + 1, Len(s))

AllWithin(seqs, n) == \A i \in 1..Len(seqs) : Len(seqs[i]) <= n

\* C1: for every non-blank source line and every max_line_length >= 1, every
\* display line built by _group_sentences_into_lines, the chunks taken from
\* _force_split_long_sentence included, has length <= max_line_length; and
\* every newline-separated line of every paragraph that
\* _split_line(line, max_length) returns has at most max_length // 2 characters.
C1_LineLengthBounded ==
    LET max_line_length == max_length \div 2 IN
    /\ pc \in {"pair", "done"} =>
          /\ AllWithin(lines, max_line_length)
          /\ \A s \in 1..Len(sentences) :
                AllWithin(_force_split_long_sentence(sentences[s], max_line_length),
                          max_line_length)
    /\ pc = "done" =>
          /\ paragraphs = _split_line(line, max_length)
          /\ \A j \in 1..Len(paragraphs) :
                AllWithin(SplitOnNewline(paragraphs[j]), max_line_length)

\* A run in which a unit had to be split by force, a line is exactly full and
\* a two-line paragraph was built.
C1_Witness ==
    /\ pc = "done"
    /\ \E s \in 1..Len(sentences) : Len(sentences[s]) > max_length \div 2
    /\ \E i \in 1..Len(lines) : Len(lines[i]) = max_length \div 2
    /\ Len(sentences) >= 2
    /\ Len(lines) >= 3
    /\ max_length \div 2 >= 2

\* C9: the pipeline is lossless per source line: the units of _extract_sentences,
\* in order, concatenate to the stripped line, and the paragraphs of _split_line,
\* in order and with the joining newline of each two-line paragraph removed,
\* concatenate to exactly the stripped line.
C9_Lossless ==
    /\ pc \in {"group", "pair", "done"} =>
          /\ line = strip(original_line)
          /\ Join(sentences) = line
    /\ pc = "done" =>
          /\ Join([j \in 1..Len(paragraphs) |-> DropFirstNewline(paragraphs[j])]) = line
          /\ Join([j \in 1..Len(_split_line(line, max_length)) |->
                     DropFirstNewline(_split_line(line, max_length)[j])]) = line

\* A run on a line that strip() shortened, with whitespace inside a unit after a
\* terminal mark, several units and a two-line paragraph.
C9_Witness ==
    /\ pc = "done"
    /\ line /= original_line
    /\ Len(sentences) >= 2
    /\ \E s \in 1..Len(sentences) : Head(sentences[s]) = " "
    /\ \E j \in 1..Len(paragraphs) : \E i \in 1..Len(paragraphs[j]) : paragraphs[j][i] = "\n"

\* C10: _group_lines_into_paragraphs consumes the lines two at a time in
\* order: k lines give ceil(k/2) paragraphs, paragraph j is
\* lines[2j] + "\n" + lines[2j+1], except that for odd k the last paragraph is
\* the single last line; every paragraph has at most two lines.
C10_Pairing ==
    pc = "done" =>
        LET k == Len(lines) IN
        /\ Len(paragraphs) = (k + 1) \div 2
        /\ \A j \in 0..(Len(paragraphs) - 1) :
              /\ At(paragraphs, j) =
                    IF 2 * j + 1 < k
                    THEN At(lines, 2 * j) \o <<"\n">> \o At(lines, 2 * j + 1)
                    ELSE At(lines, 2 * j)
              /\ Len(SplitOnNewline(At(paragraphs, j))) <= 2

\* A run with an odd number (five) of display lines: two pairs and a single.
C10_Witness ==
    /\ pc = "done"
    /\ Len(lines) = 5
    /\ Len(paragraphs) = 3

----------------------------------------------------------------------------
\* Scenario C (checked under Spec)

\* The chunks the forced splitter makes of the Scenario C line
\* (max_line_length = 66 // 2 = 33).
ScenarioCChunks ==
    _force_split_long_sentence(strip(ScenarioCLine), DefaultMaxLength \div 2)

\* The last k entries of a list
Tail_k(s, k) == SubSeq(s, Len(s) - k + 1, Len(s))

\* C11 as the specification states it: the 200-character line is split into 7
\* chunks of at most 33 characters that concatenate to the line, and each
\* chunk is a paragraph of its own: 7 paragraphs, 7 mapping entries.
C11_ScenarioC_EachChunkAParagraph ==
    (LoadedOk /\ LoadedDoc = ScenarioC) =>
        /\ Len(ScenarioCChunks) = 7
        /\ AllWithin(ScenarioCChunks, 33)
        /\ Join(ScenarioCChunks) = strip(ScenarioCLine)
        /\ book_content = ScenarioCChunks
        /\ \A i \in 0..6 : get_actual_line_number(i) = 1
        /\ Len(DictGet(reverse_line_mapping, 1, <<>>)) >= 7
        /\ Tail_k(DictGet(reverse_line_mapping, 1, <<>>), 7) = <<0, 1, 2, 3, 4, 5, 6>>

\* C11, amended: the 200-character line is split into 7 chunks of at most 33
\* characters that concatenate to the line; the 7 chunks are paired in order
\* into 4 paragraphs (three of two chunks joined by a newline, the last the
\* single seventh chunk), and the load writes 4 mapping entries for the line:
\* display indices 0..3 map to source line 1 and are appended, in order, to
\* the display indices of line 1.
C11_ScenarioC ==
    (LoadedOk /\ LoadedDoc = ScenarioC) =>
        /\ Len(ScenarioCChunks) = 7
        /\ AllWithin(ScenarioCChunks, 33)
        /\ Join(ScenarioCChunks) = strip(ScenarioCLine)
        /\ Len(book_content) = 4
        /\ \A j \in 0..2 :
              At(book_content, j) =
                  At(ScenarioCChunks, 2 * j) \o <<"\n">> \o At(ScenarioCChunks, 2 * j + 1)
        /\ At(book_content, 3) = At(ScenarioCChunks, 6)
        /\ \A i \in 0..3 : get_actual_line_number(i) = 1
        /\ Len(DictGet(reverse_line_mapping, 1, <<>>)) >= 4
        /\ Tail_k(DictGet(reverse_line_mapping, 1, <<>>), 4) = <<0, 1, 2, 3>>

\* The Scenario C document is loaded, on a BookManager that loaded before.
C11_Witness ==
    /\ LoadedOk
    /\ LoadedDoc = ScenarioC
    /\ n_loads >= 2
    /\ Len(book_content) = 4

----------------------------------------------------------------------------
\* One call of _force_split_long_sentence, one loop iteration per step

SplitAlphabet == {"a", ",", " "}
SplitTexts == UNION {[1..n -> SplitAlphabet] : n \in 0..MaxSplitText}

\* lines 299-303: the early return, or the locals before the loop
SplitEnter ==
    /\ split_pc = "call"
    /\ IF Len(split_text) <= split_max
       THEN /\ split_result' = <<split_text>>
            /\ split_pc' = "returned"
            /\ UNCHANGED split_start
       ELSE /\ split_result' = <<>>
            /\ split_start' = 0
            /\ split_pc' = "loop"
    /\ UNCHANGED <<split_text, split_max>>
    /\ UNCHANGED <<bm_vars, line_vars, app_vars, disk_vars>>

\* lines 305-323: one pass of the while loop
SplitIterate ==
    /\ split_pc = "loop"
    /\ IF ~(split_start < Len(split_text))
       THEN /\ split_pc' = "returned"
            /\ UNCHANGED <<split_start, split_result>>
       ELSE LET end == Min(split_start + split_max, Len(split_text)) IN
            IF end < Len(split_text)
            THEN LET split_point == SplitPoint(split_text, split_start, end, split_max) IN
                 /\ split_result' =
                        Append(split_result, Slice(split_text, split_start, split_point))
                 /\ split_start' = split_point
                 /\ split_pc' = "loop"
            ELSE /\ split_result' = Append(split_result, Slice(split_text, split_start, end))
                 /\ split_pc' = "returned"
                 /\ UNCHANGED split_start
    /\ UNCHANGED <<split_text, split_max>>
    /\ UNCHANGED <<bm_vars, line_vars, app_vars, disk_vars>>

SplitInit ==
    /\ split_text \in SplitTexts
    /\ split_max \in 1..MaxSplitLen
    /\ split_start = 0
    /\ split_result = <<>>
    /\ split_pc = "call"
    /\ BmIdle
    /\ LineIdle

SplitNext == SplitEnter \/ SplitIterate

\* The call is sequential code: an enabled step is eventually taken.
SpecSplit == SplitInit /\ [][SplitNext]_vars /\ WF_vars(SplitNext)

----------------------------------------------------------------------------
\* Properties of _force_split_long_sentence (checked under SpecSplit)

\* The chunks that are not the last chunk of the call: each was cut from a
\* window that ends before the end of the text.
NonLastChunks ==
    IF split_pc = "loop" THEN 1..Len(split_result)
    ELSE IF split_pc = "returned" THEN 1..(Len(split_result) - 1)
    ELSE {}

\* 0-based position of the first character of chunk k, and of its cut
ChunkStart(k) == Len(Join(SubSeq(split_result, 1, k - 1)))
ChunkCut(k)   == ChunkStart(k) + Len(split_result[k])

\* The look-back range of the window of chunk k as the code walks it
OneThirdRange(k) ==
    {i \in ChunkStart(k)..(ChunkStart(k) + split_max - 1) :
         i > ChunkStart(k) + (split_max \div 3)}
\* and as the specification states it
TwoThirdsRange(k) ==
    {i \in ChunkStart(k)..(ChunkStart(k) + split_max - 1) :
         3 * (i - ChunkStart(k)) >= 2 * split_max}

PunctIn(R)  == {i \in R : At(split_text, i) \in BreakPunct}
SpaceIn(R)  == {i \in R : At(split_text, i) \in BreakSpace}
Largest(S)  == CHOOSE j \in S : \A k \in S : k <= j

\* Chunk k ends at break character i: just after punctuation, just before whitespace.
CutAtBreak(k, i) ==
    \/ At(split_text, i) \in BreakPunct /\ ChunkCut(k) = i + 1
    \/ At(split_text, i) \in BreakSpace /\ ChunkCut(k) = i

\* C13: for every string and every max_len >= 1 the chunks of
\* _force_split_long_sentence concatenate, in order, to exactly the string,
\* and every chunk has at most max_len characters.
C13_ForcedSplitLossless ==
    /\ split_pc = "loop" =>
          /\ Join(split_result) = Slice(split_text, 0, split_start)
          /\ AllWithin(split_result, split_max)
    /\ split_pc = "returned" =>
          /\ split_result = _force_split_long_sentence(split_text, split_max)
          /\ Join(split_result) = split_text
          /\ AllWithin(split_result, split_max)

\* A finished call with a hard cut, a cut at a break character that dropped
\* nothing, and at least three chunks.
C13_Witness ==
    /\ split_pc = "returned"
    /\ Len(split_result) >= 3
    /\ \E k \in NonLastChunks : Len(split_result[k]) = split_max
    /\ \E k \in NonLastChunks :
          /\ Len(split_result[k]) < split_max
          /\ At(split_text, ChunkCut(k)) \in BreakSpace

\* C14: for every non-empty text and max_len >= 1 the call terminates and
\* returns at least one chunk: every loop iteration either moves start
\* strictly forward or appends the last chunk and returns, so no chunk is empty.
C14_Terminates ==
    /\ [][split_pc = "loop" =>
             \/ split_pc' = "loop" /\ split_start' > split_start
             \/ split_pc' = "returned" /\ Len(split_result') = Len(split_result) + 1]_vars
    /\ []((split_pc \in {"loop", "returned"} /\ split_text /= <<>>) =>
             \A k \in 1..Len(split_result) : split_result[k] /= <<>>)
    /\ []((split_pc = "returned" /\ split_text /= <<>>) => Len(split_result) >= 1)
    /\ <>(split_pc = "returned")

\* A finished call on a text that went through several iterations, one of
\* them cut before a whitespace character.
C14_Witness ==
    /\ split_pc = "returned"
    /\ split_max >= 1
    /\ Len(split_result) >= 3
    /\ \E k \in NonLastChunks : At(split_text, ChunkCut(k)) \in BreakSpace

\* C16 as the specification states it: in a window that ends before the end
\* of the text a break character is looked for only over
\* start + max_len * 2 / 3 <= i <= window_end - 1, so every chunk but the last
\* is a hard cut of exactly max_len characters (no break character in that
\* range) or ends at a break character of that range and keeps at least two
\* thirds of max_len characters.
C16_LookBackTwoThirds ==
    \A k \in NonLastChunks :
        LET breaks == PunctIn(TwoThirdsRange(k)) \cup SpaceIn(TwoThirdsRange(k)) IN
        IF breaks = {} THEN Len(split_result[k]) = split_max
        ELSE /\ \E i \in breaks : CutAtBreak(k, i)
             /\ 3 * Len(split_result[k]) >= 2 * split_max

\* C16, amended: the break character is looked for over
\* start + max_len // 3 < i <= window_end - 1 (integer division), so every
\* chunk but the last is a hard cut of exactly max_len characters (no break
\* character in that range) or ends at a break character of that range and
\* keeps more than max_len // 3 characters.
C16_LookBackOneThird ==
    \A k \in NonLastChunks :
        LET breaks == PunctIn(OneThirdRange(k)) \cup SpaceIn(OneThirdRange(k)) IN
        IF breaks = {} THEN Len(split_result[k]) = split_max
        ELSE /\ \E i \in breaks : CutAtBreak(k, i)
             /\ Len(split_result[k]) > split_max \div 3
             /\ Len(split_result[k]) <= split_max

\* A chunk cut at a break character that lies in the first two thirds of its
\* window, and a hard cut, in one call.
C16_Witness ==
    /\ split_pc = "returned"
    /\ \E k \in NonLastChunks :
          /\ 3 * Len(split_result[k]) < 2 * split_max
          /\ At(split_text, ChunkCut(k)) \in BreakSpace
    /\ \E k \in NonLastChunks :
          /\ PunctIn(OneThirdRange(k)) \cup SpaceIn(OneThirdRange(k)) = {}
          /\ Len(split_result[k]) = split_max

\* C17 as the specification states it: the two kinds of break character are
\* ranked. If the look-back range holds one of the four punctuation
\* characters the cut is just after the one nearest the window end, even when
\* a whitespace character is nearer; the cut is just before a whitespace
\* character only when the range holds no such punctuation.
C17_PunctuationRankedFirst ==
    \A k \in NonLastChunks :
        LET puncts == PunctIn(OneThirdRange(k))
            spaces == SpaceIn(OneThirdRange(k)) IN
        IF puncts /= {} THEN ChunkCut(k) = Largest(puncts) + 1
        ELSE IF spaces /= {} THEN ChunkCut(k) = Largest(spaces)
        ELSE Len(split_result[k]) = split_max

\* C17, amended: the two kinds are not ranked. The cut is at the break
\* character of the look-back range nearest the window end, whichever kind it
\* is: just after it when it is one of the four punctuation characters, just
\* before it when it is a space or a tab; the window is cut hard at max_len
\* only when the range holds no break character.
C17_NearestBreakWins ==
    \A k \in NonLastChunks :
        LET breaks == PunctIn(OneThirdRange(k)) \cup SpaceIn(OneThirdRange(k)) IN
        IF breaks /= {} THEN CutAtBreak(k, Largest(breaks))
        ELSE Len(split_result[k]) = split_max

\* A window whose range holds punctuation and, nearer the window end and not
\* next to it, whitespace: the chunk ends before the whitespace.
C17_Witness ==
    /\ split_pc = "returned"
    /\ \E k \in NonLastChunks :
          /\ PunctIn(OneThirdRange(k)) /= {}
          /\ SpaceIn(OneThirdRange(k)) /= {}
          /\ Largest(SpaceIn(OneThirdRange(k))) > Largest(PunctIn(OneThirdRange(k))) + 1
          /\ ChunkCut(k) = Largest(SpaceIn(OneThirdRange(k)))

----------------------------------------------------------------------------
\* Sentence units and their packing (checked under SpecLine)

ClosingQuote == "\""

\* 0-based position in the stripped line of the first character of unit s
UnitStart(s) == Len(Join(SubSeq(sentences, 1, s - 1)))
\* and in the concatenated lines of the first character of line i
LineStart(i) == Len(Join(SubSeq(lines, 1, i - 1)))

\* C15 as the specification states it: a closing quotation mark right after a
\* terminal mark belongs to the unit of that mark. Every unit but possibly the
\* last ends in a terminal mark optionally followed by one closing quotation
\* mark, and no unit begins with a closing quotation mark that directly
\* followed a terminal mark in the line.
C15_ClosingQuoteStaysWithMark ==
    pc \in {"group", "pair", "done"} =>
        /\ \A s \in 1..(Len(sentences) - 1) :
              LET u == sentences[s] IN
              \/ u[Len(u)] \in Terminal
              \/ Len(u) >= 2 /\ u[Len(u)] = ClosingQuote /\ u[Len(u) - 1] \in Terminal
        /\ \A s \in 2..Len(sentences) :
              Head(sentences[s]) = ClosingQuote =>
                  At(line, UnitStart(s) - 1) \notin Terminal

\* C15, amended: a unit ends at its terminal mark. Every unit but possibly the
\* last ends in a terminal mark, no unit holds a terminal mark before its last
\* character, and a closing quotation mark that directly follows a terminal
\* mark in the line is the first character of the next unit.
C15_UnitsEndAtTerminalMark ==
    pc \in {"group", "pair", "done"} =>
        /\ \A s \in 1..(Len(sentences) - 1) :
              sentences[s][Len(sentences[s])] \in Terminal
        /\ \A s \in 1..Len(sentences) :
              \A i \in 1..(Len(sentences[s]) - 1) : sentences[s][i] \notin Terminal
        /\ \A q \in 1..(Len(line) - 1) :
              (At(line, q) = ClosingQuote /\ At(line, q - 1) \in Terminal) =>
                  \E s \in 2..Len(sentences) :
                      /\ UnitStart(s) = q
                      /\ Head(sentences[s]) = ClosingQuote

\* A line in which a closing quotation mark follows a terminal mark and text
\* follows the quotation mark.
C15_Witness ==
    /\ pc \in {"group", "pair", "done"}
    /\ \E q \in 1..(Len(line) - 2) :
          At(line, q) = ClosingQuote /\ At(line, q - 1) \in Terminal
    /\ Len(sentences) >= 2

\* C18: _group_sentences_into_lines never reorders or drops a unit: the lines
\* concatenate to the concatenation of the units in input order; a unit of at
\* most max_line_length characters lies whole inside one line; a longer unit
\* starts on a line boundary (the accumulator was flushed) and the lines from
\* there on are exactly its forced-split chunks, one chunk per line.
C18_PackingKeepsUnits ==
    pc \in {"pair", "done"} =>
        LET max_line_length == max_length \div 2 IN
        /\ lines = _group_sentences_into_lines(sentences, max_line_length)
        /\ Join(lines) = Join(sentences)
        /\ \A s \in 1..Len(sentences) :
              LET unit == sentences[s] IN
              IF Len(unit) <= max_line_length
              THEN \E i \in 1..Len(lines) :
                      /\ LineStart(i) <= UnitStart(s)
                      /\ UnitStart(s) + Len(unit) <= LineStart(i) + Len(lines[i])
              ELSE LET chunks == _force_split_long_sentence(unit, max_line_length) IN
                   \E i \in 1..Len(lines) :
                      /\ LineStart(i) = UnitStart(s)
                      /\ i + Len(chunks) - 1 <= Len(lines)
                      /\ SubSeq(lines, i, i + Len(chunks) - 1) = chunks

\* A run in which an overlong unit arrives while the accumulator holds a unit,
\* and is followed by a unit that fits a line.
C18_Witness ==
    /\ pc = "done"
    /\ \E s \in 2..(Len(sentences) - 1) :
          /\ Len(sentences[s]) > max_length \div 2
          /\ Len(sentences[s - 1]) <= max_length \div 2
          /\ Len(sentences[s + 1]) <= max_length \div 2

----------------------------------------------------------------------------
\* The application: main(), BookManager's bookshelf methods, FloatingWindow

Max(a, b) == IF a > b THEN a ELSE b

\* has_opened_book()
has_opened_book ==
    /\ current_book /= None
    /\ current_book \in DOMAIN bookshelf
    /\ fs[current_book].exists

\* add_book writing the entry whether or not the book is in the bookshelf.
AddBook_Resets(shelf, ns, file_path) ==
    [bookshelf   |-> DictSet(shelf, file_path,
                             [progress |-> 0, total_lines |-> _count_lines(file_path)]),
     _needs_save |-> TRUE]

\* add_book(file_path) of an existing file, on the bookshelf shelf and the
\* flag ns: [bookshelf, _needs_save] after the call
AddBook(shelf, ns, file_path) ==
    IF file_path \notin DOMAIN shelf
    THEN [bookshelf   |-> DictSet(shelf, file_path,
                                  [progress |-> 0,
                                   total_lines |-> _count_lines(file_path)]),
          _needs_save |-> TRUE]
    ELSE [bookshelf |-> shelf, _needs_save |-> ns]

\* The guard of get_current_progress and update_progress (lines 73-75, 86-88)
ValidBook(path, shelf) ==
    /\ path /= None
    /\ path \in DOMAIN shelf
    /\ fs[path].exists

\* get_current_progress()
GetCurrentProgress(path, shelf) ==
    IF ValidBook(path, shelf) THEN shelf[path].progress ELSE 0

\* update_progress(line_number): [bookshelf, _needs_save] after the call
UpdateProgress(path, shelf, ns, line_number) ==
    IF ValidBook(path, shelf)
    THEN [bookshelf   |-> [shelf EXCEPT ![path].progress = line_number],
          _needs_save |-> IF auto_save_progress THEN TRUE ELSE ns]
    ELSE [bookshelf |-> shelf, _needs_save |-> ns]

\* update_display without the elif branch's clamp.
UpdateDisplay_NoClamp(cl, content, path, shelf, ns) ==
    IF content = <<>>
    THEN [current_line |-> cl, bookshelf |-> shelf, _needs_save |-> ns]
    ELSE LET up == UpdateProgress(path, shelf, ns, cl)
         IN  [current_line |-> cl, bookshelf |-> up.bookshelf,
              _needs_save |-> up._needs_save]

\* update_display() with current_line = cl and book_content = content:
\* [current_line, bookshelf, _needs_save] after the call
UpdateDisplay(cl, content, path, shelf, ns) ==
    IF content = <<>>
    THEN [current_line |-> cl, bookshelf |-> shelf, _needs_save |-> ns]
    ELSE LET shown == IF 0 <= cl /\ cl < Len(content) THEN cl
                      ELSE Max(0, Min(cl, Len(content) - 1))
             up    == UpdateProgress(path, shelf, ns, shown)
         IN  [current_line |-> shown, bookshelf |-> up.bookshelf,
              _needs_save |-> up._needs_save]

\* What FloatingWindow.__init__ (lines 41-63) and reselect_book (lines
\* 340-342) share: read the progress, load the content, display. path, shelf
\* and ns are the BookManager's values when the window code starts.
ShowBook(path, shelf, ns) ==
    LET progress == GetCurrentProgress(path, shelf)
        r == GetBookContent(path, line_mapping, reverse_line_mapping)
        d == UpdateDisplay(progress, r.ret, path, shelf, ns)
    IN  /\ book_content' = r.ret
        /\ line_mapping' = r.line_mapping
        /\ reverse_line_mapping' = r.reverse_line_mapping
        /\ loaded_path' = path
        /\ n_loads' = n_loads + 1
        /\ current_line' = d.current_line
        /\ bookshelf' = d.bookshelf
        /\ _needs_save' = d._needs_save

\* The files a file dialog can return
ExistingPaths == {path \in Paths : fs[path].exists}

\* main(), lines 37-61, up to the running window. file_path is the answer of
\* the file dialog, None when the user cancels.
main(file_path) ==
    /\ app_pc = "main"
    /\ IF has_opened_book
       THEN /\ ShowBook(current_book_path, bookshelf, _needs_save)
            /\ app_pc' = "running"
            /\ UNCHANGED <<current_book_path, current_book>>
       ELSE IF file_path = None
       THEN /\ app_pc' = "exited"
            /\ UNCHANGED <<current_book_path, line_mapping, reverse_line_mapping,
                           book_content, loaded_path, n_loads>>
            /\ UNCHANGED <<bookshelf, current_book, current_line>>
            /\ \E write \in WriteOutcomes : SaveSets(write)
       ELSE LET added == AddBook(bookshelf, _needs_save, file_path) IN
            /\ current_book_path' = file_path
            /\ current_book' = file_path
            /\ ShowBook(file_path, added.bookshelf, TRUE)
            /\ app_pc' = "running"
    /\ (has_opened_book \/ file_path /= None) => UNCHANGED disk_vars
    /\ waiting_for_line_number' = FALSE
    /\ line_number_input' = <<>>
    /\ UNCHANGED <<fs, auto_save_progress>>
    /\ UNCHANGED <<line_vars, split_vars>>

\* The while loops of next_line (line 272) and previous_line (line 252)
RECURSIVE SkipForward(_, _)
SkipForward(content, new_line) ==
    IF new_line < Len(content) /\ strip(At(content, new_line)) = <<>>
    THEN SkipForward(content, new_line + 1)
    ELSE new_line

RECURSIVE SkipBackward(_, _)
SkipBackward(content, new_line) ==
    IF new_line >= 0 /\ strip(At(content, new_line)) = <<>>
    THEN SkipBackward(content, new_line - 1)
    ELSE new_line

\* A key handler that moves to new_line and calls update_display()
MoveTo(new_line) ==
    LET d == UpdateDisplay(new_line, book_content, current_book_path,
                           bookshelf, _needs_save)
    IN  /\ current_line' = d.current_line
        /\ bookshelf' = d.bookshelf
        /\ _needs_save' = d._needs_save

KeysAccepted == app_pc = "running" /\ ~waiting_for_line_number

\* Key Down / S: next_line()
next_line ==
    /\ KeysAccepted
    /\ IF book_content = <<>>
       THEN UNCHANGED <<current_line, bookshelf, _needs_save>>
       ELSE LET new_line == SkipForward(book_content, current_line + 1) IN
            IF new_line < Len(book_content)
            THEN MoveTo(new_line)
            ELSE UNCHANGED <<current_line, bookshelf, _needs_save>>
    /\ UNCHANGED <<bm_vars, current_book, auto_save_progress>>
    /\ UNCHANGED <<waiting_for_line_number, line_number_input, app_pc>>
    /\ UNCHANGED <<line_vars, split_vars, disk_vars>>

\* Key Up / W: previous_line()
previous_line ==
    /\ KeysAccepted
    /\ IF book_content = <<>>
       THEN UNCHANGED <<current_line, bookshelf, _needs_save>>
       ELSE LET new_line == SkipBackward(book_content, current_line - 1) IN
            IF new_line >= 0
            THEN MoveTo(new_line)
            ELSE UNCHANGED <<current_line, bookshelf, _needs_save>>
    /\ UNCHANGED <<bm_vars, current_book, auto_save_progress>>
    /\ UNCHANGED <<waiting_for_line_number, line_number_input, app_pc>>
    /\ UNCHANGED <<line_vars, split_vars, disk_vars>>

\* Key G: line number mode (lines 219-225)
key_G ==
    /\ KeysAccepted
    /\ waiting_for_line_number' = TRUE
    /\ line_number_input' = <<>>
    /\ UNCHANGED <<bm_vars, shelf_vars, current_line, app_pc>>
    /\ UNCHANGED <<line_vars, split_vars, disk_vars>>

\* The line numbers a user types
LineNumberInputs == {<<>>, <<"0">>, <<"2">>, <<"2", "0">>}
Digits == {"0", "2"}

\* Keys 0..9 in line number mode (lines 201-206)
key_digit(text) ==
    /\ app_pc = "running"
    /\ waiting_for_line_number
    /\ Append(line_number_input, text) \in LineNumberInputs
    /\ line_number_input' = Append(line_number_input, text)
    /\ UNCHANGED <<bm_vars, shelf_vars, current_line, waiting_for_line_number, app_pc>>
    /\ UNCHANGED <<line_vars, split_vars, disk_vars>>

\* int() of a string of decimal digits
DigitValue(c) ==
    CASE c = "0" -> 0 [] c = "1" -> 1 [] c = "2" -> 2 [] c = "3" -> 3 [] c = "4" -> 4
      [] c = "5" -> 5 [] c = "6" -> 6 [] c = "7" -> 7 [] c = "8" -> 8 [] c = "9" -> 9

RECURSIVE int(_)
int(s) == IF s = <<>> THEN 0 ELSE 10 * int(SubSeq(s, 1, Len(s) - 1)) + DigitValue(s[Len(s)])

\* Key Return in line number mode: jump_to_line()
jump_to_line ==
    /\ app_pc = "running"
    /\ waiting_for_line_number
    /\ LET same == [current_line |-> current_line, bookshelf |-> bookshelf,
                    _needs_save |-> _needs_save]
           jumped ==
               IF line_number_input /= <<>>
               THEN LET target_line == int(line_number_input)
                        display_index == get_display_line_index(target_line)
                    IN  IF display_index /= -1
                        THEN UpdateDisplay(display_index, book_content,
                                           current_book_path, bookshelf, _needs_save)
                        ELSE same
               ELSE same
           d == UpdateDisplay(jumped.current_line, book_content, current_book_path,
                              jumped.bookshelf, jumped._needs_save)
       IN  /\ current_line' = d.current_line
           /\ bookshelf' = d.bookshelf
           /\ _needs_save' = d._needs_save
    /\ waiting_for_line_number' = FALSE
    /\ line_number_input' = <<>>
    /\ UNCHANGED <<bm_vars, current_book, auto_save_progress, app_pc>>
    /\ UNCHANGED <<line_vars, split_vars, disk_vars>>

\* Key Escape in line number mode (lines 210-214)
key_Escape ==
    /\ app_pc = "running"
    /\ waiting_for_line_number
    /\ MoveTo(current_line)
    /\ waiting_for_line_number' = FALSE
    /\ line_number_input' = <<>>
    /\ UNCHANGED <<bm_vars, current_book, auto_save_progress, app_pc>>
    /\ UNCHANGED <<line_vars, split_vars, disk_vars>>

\* Key R: reselect_book(); file_path is the answer of the file dialog
reselect_book(file_path) ==
    /\ KeysAccepted
    /\ IF file_path = None
       THEN /\ UNCHANGED <<current_book_path, line_mapping, reverse_line_mapping,
                           book_content, loaded_path, n_loads>>
            /\ UNCHANGED <<bookshelf, current_book, _needs_save, current_line>>
       ELSE /\ n_loads < MaxLoads
            /\ LET added == AddBook(bookshelf, _needs_save, file_path) IN
               /\ current_book_path' = file_path
               /\ current_book' = file_path
               /\ ShowBook(file_path, added.bookshelf, TRUE)
    /\ UNCHANGED <<fs, auto_save_progress>>
    /\ UNCHANGED <<waiting_for_line_number, line_number_input, app_pc>>
    /\ UNCHANGED <<line_vars, split_vars, disk_vars>>

\* Key Q: QApplication.quit() ends app.exec(), and main's finally clause
\* (lines 74-77) calls save().
key_Q(write) ==
    /\ KeysAccepted
    /\ app_pc' = "exited"
    /\ SaveSets(write)
    /\ UNCHANGED <<bm_vars, bookshelf, current_book, auto_save_progress>>
    /\ UNCHANGED <<current_line, waiting_for_line_number, line_number_input>>
    /\ UNCHANGED <<line_vars, split_vars>>

\* A line of one word, a run of 170 spaces and one word: its second paragraph
\* is whitespace only.
GapLine == <<"a">> \o [i \in 1..170 |-> " "] \o <<"a", "\n">>

\* The documents and files of the application runs: A.txt is any of them,
\* B.txt one of three documents or an undecodable file.
AppDocs == {<<>>, <<ShortLine>>, <<LongLine, ShortLine>>, ScenarioD, <<GapLine>>}
AppFileStates ==
    {TextFile(doc) : doc \in AppDocs}
        \cup {MissingFile, TooLargeFile, NoSizeFile, UnreadableFile}
AppFileSystems ==
    {files \in [Paths -> AppFileStates] :
        files["B.txt"] \in {TextFile(<<ShortLine>>), TextFile(<<LongLine, ShortLine>>),
                            UnreadableFile}}

\* The progress values a bookshelf file holds at start-up: the first
\* paragraphs, and an index past the end of every document.
StoredProgress == {0, 1, 7}

\* The bookshelf files a start-up can find: the entries an earlier run wrote
\* for some of the files.
Bookshelves ==
    UNION {{[path \in known |-> [progress |-> stored[path],
                                 total_lines |-> _count_lines(path)]] :
                stored \in [known -> StoredProgress]} :
           known \in SUBSET Paths}

\* The start of main(): BookManager.__init__ has read the bookshelf
AppInit ==
    /\ fs \in AppFileSystems
    /\ bookshelf \in Bookshelves
    /\ current_book \in DOMAIN bookshelf \cup {None}
    /\ current_book_path = current_book
    /\ _needs_save = FALSE
    /\ auto_save_progress \in BOOLEAN
    /\ line_mapping = EmptyDict
    /\ reverse_line_mapping = EmptyDict
    /\ book_content = <<>>
    /\ loaded_path = None
    /\ n_loads = 0
    /\ current_line = 0
    /\ waiting_for_line_number = FALSE
    /\ line_number_input = <<>>
    /\ app_pc = "main"
    /\ DiskIdle
    /\ LineIdle
    /\ SplitIdle

AppNext ==
    \/ \E file_path \in ExistingPaths \cup {None} : main(file_path)
    \/ next_line
    \/ previous_line
    \/ key_G
    \/ \E text \in Digits : key_digit(text)
    \/ jump_to_line
    \/ key_Escape
    \/ \E file_path \in ExistingPaths \cup {None} : reselect_book(file_path)
    \/ \E write \in WriteOutcomes : key_Q(write)

SpecApp == AppInit /\ [][AppNext]_vars

----------------------------------------------------------------------------
\* Properties of the reading progress and of the window (checked under SpecApp)

\* The step constructs the window or reselects a book: it loads and displays.
ShowsBook == app_pc' = "running" /\ n_loads' = n_loads + 1

\* C12: reading progress is stored per path and restored. No step changes the
\* entry of a book other than the current one, so update_progress writes only
\* the current book's progress; a step that switches to a book already in the
\* bookshelf (add_book, set_current_book, load, display) starts the window at
\* that book's stored progress, held to the loaded content, and the stored
\* progress is kept whenever it is an index of the loaded content: reading A
\* to index i, switching to B and back to A restores i.
C12_ProgressPerBook ==
    /\ [][\A path \in DOMAIN bookshelf :
              /\ path \in DOMAIN bookshelf'
              /\ path /= current_book_path' => bookshelf'[path] = bookshelf[path]]_vars
    /\ [][(ShowsBook /\ current_book_path' \in DOMAIN bookshelf) =>
              LET stored == bookshelf[current_book_path'].progress
                  len    == Len(book_content')
              IN  /\ len = 0 => current_line' = stored
                  /\ len > 0 => current_line' = Max(0, Min(stored, len - 1))
                  /\ stored \in 0..(len - 1) =>
                        bookshelf'[current_book_path'].progress = stored]_vars

\* The window is back on A.txt after B.txt was shown, at the paragraph A.txt
\* was read to, and B.txt holds another progress.
C12_Witness ==
    /\ app_pc = "running"
    /\ n_loads >= 3
    /\ current_book_path = "A.txt"
    /\ DOMAIN bookshelf = Paths
    /\ current_line >= 1
    /\ bookshelf["A.txt"].progress = current_line
    /\ bookshelf["B.txt"].progress /= current_line
    /\ Len(fs["B.txt"].lines) > 0

\* C19: while the window runs with a non-empty book_content, current_line is
\* an index of book_content after every handler; every progress a handler
\* writes is the current book's, equals current_line and is such an index;
\* next_line at the last paragraph and previous_line at index 0 leave
\* current_line unchanged.
C19_CurrentLineInRange ==
    /\ []((app_pc = "running" /\ book_content /= <<>>) =>
             (0 <= current_line /\ current_line < Len(book_content)))
    /\ [][app_pc' = "running" =>
             \A path \in DOMAIN bookshelf :
                 bookshelf'[path].progress /= bookshelf[path].progress =>
                     /\ path = current_book_path'
                     /\ bookshelf'[path].progress = current_line'
                     /\ 0 <= current_line'
                     /\ current_line' < Len(book_content')]_vars
    /\ [][(next_line /\ book_content /= <<>> /\ current_line = Len(book_content) - 1) =>
             current_line' = current_line]_vars
    /\ [][(previous_line /\ book_content /= <<>> /\ current_line = 0) =>
             current_line' = current_line]_vars

\* The window shows the last of several paragraphs of a second book, and the
\* mapping still holds a display index past the end of that book.
C19_Witness ==
    /\ app_pc = "running"
    /\ n_loads >= 2
    /\ Len(book_content) >= 2
    /\ current_line = Len(book_content) - 1
    /\ \E i \in DOMAIN line_mapping : i >= Len(book_content)

\* The result shown by the step is a diagnostic of a file that exists: too
\* large, size not readable, or not readable as text.
DiagnosticShown ==
    /\ ShowsBook
    /\ LET f == fs[current_book_path'] IN
       f.exists /\ (f.size_error \/ f.size > MaxFileSize \/ f.read_error)

\* C20: a failed load does not alter stored reading progress. When the window
\* is constructed on, or reselects, a book in the bookshelf with stored
\* progress p and get_book_content() returns a one-paragraph diagnostic, the
\* bookshelf records progress p for the book afterwards, and starting the
\* window on it makes no save pending.
C20_FailedLoadKeepsProgress ==
    [][(DiagnosticShown /\ current_book_path' \in DOMAIN bookshelf) =>
           /\ bookshelf'[current_book_path'].progress =
                  bookshelf[current_book_path'].progress
           /\ (app_pc = "main" /\ has_opened_book) => _needs_save' = _needs_save]_vars

----------------------------------------------------------------------------
\* The bookshelf methods of BookManager, called in any order

\* add_book(file_path): raises FileNotFoundError, changing nothing, when the
\* file does not exist
add_book(file_path) ==
    /\ IF fs[file_path].exists
       THEN LET added == AddBook(bookshelf, _needs_save, file_path) IN
            /\ bookshelf' = added.bookshelf
            /\ _needs_save' = added._needs_save
       ELSE UNCHANGED <<bookshelf, _needs_save>>
    /\ UNCHANGED <<bm_vars, current_book, auto_save_progress, win_vars, disk_vars>>
    /\ UNCHANGED <<line_vars, split_vars>>

\* update_progress(line_number)
update_progress(line_number) ==
    /\ LET up == UpdateProgress(current_book_path, bookshelf, _needs_save, line_number) IN
       /\ bookshelf' = up.bookshelf
       /\ _needs_save' = up._needs_save
    /\ UNCHANGED <<bm_vars, current_book, auto_save_progress, win_vars, disk_vars>>
    /\ UNCHANGED <<line_vars, split_vars>>

\* save(); write is the outcome of bookshelf.save()
save(write) ==
    /\ SaveSets(write)
    /\ UNCHANGED <<bm_vars, bookshelf, current_book, auto_save_progress, win_vars>>
    /\ UNCHANGED <<line_vars, split_vars>>

\* The files of these runs, and the display indices a caller reports
ShelfFileStates == {TextFile(<<ShortLine>>), UnreadableFile, MissingFile}
ProgressArgs == {2, 3}

\* BookManager.__init__ on some bookshelf file, with some configuration
ShelfInit ==
    /\ fs \in [Paths -> ShelfFileStates]
    /\ bookshelf \in Bookshelves
    /\ current_book \in DOMAIN bookshelf \cup {None}
    /\ current_book_path = current_book
    /\ _needs_save = FALSE
    /\ auto_save_progress \in BOOLEAN
    /\ line_mapping = EmptyDict
    /\ reverse_line_mapping = EmptyDict
    /\ book_content = <<>>
    /\ loaded_path = None
    /\ n_loads = 0
    /\ WinIdle
    /\ DiskIdle
    /\ LineIdle
    /\ SplitIdle

ShelfNext ==
    \/ \E file_path \in Paths : add_book(file_path)
    \/ \E file_path \in Paths : set_current_book(file_path)
    \/ \E line_number \in ProgressArgs : update_progress(line_number)
    \/ \E write \in WriteOutcomes : save(write)

SpecShelf == ShelfInit /\ [][ShelfNext]_vars

----------------------------------------------------------------------------
\* Properties of save() (checked under SpecShelf)

\* The step is a call of save()
SaveCalled == \E write \in WriteOutcomes : save(write)

\* The step changed the in-memory bookshelf
MemChanged == bookshelf' /= bookshelf \/ current_book' /= current_book

\* C21: save() attempts the write exactly when _needs_save is set and
\* auto_save_progress is enabled. A write that succeeds puts the in-memory
\* bookshelf in the file and clears the flag, so a save() right after it
\* writes nothing. A write that raises PermissionError or OSError leaves the
\* flag set, and the next save() whose write succeeds writes the change. The
\* flag is set by every change add_book, set_current_book and update_progress
\* make while auto_save_progress is enabled, and is cleared by nothing but a
\* successful write, so with no flag set the file holds the in-memory
\* bookshelf. The file is changed by nothing but a successful write of
\* save(); with auto_save_progress disabled it is never changed.
C21_SaveWhenPending ==
    /\ [][SaveCalled =>
             /\ save_result' \in {"written", "failed"} <=>
                    (_needs_save /\ auto_save_progress)
             /\ save_result' = "written" => (disk' = Mem /\ ~_needs_save')
             /\ save_result' = "failed" => _needs_save'
             /\ save_result' = "skipped" =>
                    (disk' = disk /\ _needs_save' = _needs_save)
             /\ UNCHANGED <<bookshelf, current_book>>]_vars
    /\ [][(save("ok") /\ _needs_save /\ auto_save_progress) =>
             save_result' = "written"]_vars
    /\ [][(SaveCalled /\ ~_needs_save) =>
             (save_result' = "skipped" /\ disk' = disk)]_vars
    /\ [][(MemChanged /\ auto_save_progress) => _needs_save']_vars
    /\ [][(_needs_save /\ ~_needs_save') => (SaveCalled /\ save_result' = "written")]_vars
    /\ [][disk' /= disk => (SaveCalled /\ auto_save_progress /\ _needs_save)]_vars
    /\ []((auto_save_progress /\ ~_needs_save) => disk = Mem)
    /\ [](~auto_save_progress => save_result \in {"none", "skipped"})

\* A progress reported through update_progress is in the file, and the save()
\* after the one that wrote it found nothing pending.
C21_Witness ==
    /\ save_result = "skipped"
    /\ auto_save_progress
    /\ ~_needs_save
    /\ disk = Mem
    /\ \E path \in DOMAIN disk.bookshelf :
          disk.bookshelf[path].progress \in ProgressArgs

====
